---- MODULE Spec2Model ----
(***************************************************************************)
(* scripts/process4.py: the per-document pipeline (process_file), the      *)
(* classifier (is_scanned_pdf), the Ghostscript adapter                    *)
(* (compress_pdf_in_memory) and the dispatcher (main) with its worker pool.*)
(*                                                                         *)
(* Byte strings are sequences of small naturals.  Text (status, error      *)
(* messages) is a sequence of string tokens; concatenation of text is      *)
(* concatenation of sequences, "starts with" is the prefix relation.       *)
(* Sizes in KB are exact rationals <<num, den>> (len / 1024).              *)
(*                                                                         *)
(* The output tree is empty when main starts.  fitz opens no empty byte    *)
(* string, so a validated entry has at least one byte.  A call of          *)
(* write_bytes (with the mkdir before it) succeeds, raises leaving nothing *)
(* behind, or raises after creating the file with a proper prefix of the   *)
(* data; at most MaxWriteFaults such calls raise in one run.               *)
(*                                                                         *)
(* scripts/process5.py: process_file of the single-bucket variant, as the  *)
(* specification SpecVariant.                                              *)
(***************************************************************************)
EXTENDS Integers, Sequences, FiniteSets, TLC

\* ------------------------------------------------------------- bounds
MaxTasks == 2          \* entries in the corpus (tasks enumerated by main)
MaxLen == 2            \* longest byte string (entry or Ghostscript output)
MaxDocPages == 1       \* pages of a document met by process_file
MaxPages == 3          \* pages of a document given to the classifier alone
MaxK == 3              \* largest num_pages_to_check given to the classifier
MaxWriteFaults == 1    \* write_bytes / mkdir calls that raise in one run

\* ------------------------------------------------- program constants
NumPagesToCheck == 3   \* is_scanned_pdf's default num_pages_to_check
BytesPerKB == 1024     \* len(...) / 1024

\* the --num_workers argument
NumWorkers == 2
Tasks == 1..MaxTasks

\* ---------------------------------------------------------- the corpus
\* Archives found by glob('**/*.zip') under the input root: <<directory, stem>>.
ArchivePaths == {<<"d1", "a">>, <<"d2", "a">>, <<"d1", "b">>}
EntryNames == {"x.pdf"}
Stems == {z[2] : z \in ArchivePaths}
Buckets == {"compressed", "scanned_images", "failure"}
Paths == Buckets \X Stems \X EntryNames

\* ---------------------------------------------------------- byte strings
NoFile == <<-1>>                       \* no file at a path
NoData == <<-2>>                       \* the name file_data is not bound
EmptyBytes == <<>>                     \* b''
EntryBytes(t, n) == [i \in 1..n |-> t] \* the n bytes of task t's entry
GsBytes(m) == [i \in 1..m |-> 0]       \* m bytes written by Ghostscript

\* -------------------------------------------------------------- numbers
\* Exact fractions <<numerator, denominator>> in lowest terms, denominator > 0.
Zero == <<0, 1>>
RECURSIVE GCD(_, _)
GCD(a, b) == IF b = 0 THEN a ELSE GCD(b, a % b)
Abs(n) == IF n < 0 THEN 0 - n ELSE n
Rat(n, d) == LET g == GCD(Abs(n), d) IN <<n \div g, d \div g>>
RatLess(a, b) == a[1] * b[2] < b[1] * a[2]
RatEq(a, b) == a[1] * b[2] = b[1] * a[2]
RatSub(a, b) == Rat(a[1] * b[2] - b[1] * a[2], a[2] * b[2])
\* a / b for b > 0
RatDiv(a, b) == Rat(a[1] * b[2], a[2] * b[1])
RatTimes(a, n) == Rat(a[1] * n, a[2])
\* n / 1024
size_kb(n) == Rat(n, BytesPerKB)
\* len(data) / 1024
KB(data) == size_kb(Len(data))
\* (original - saved) / original * 100; original is not zero
Ratio(original_size, saved_size) ==
    RatTimes(RatDiv(RatSub(original_size, saved_size), original_size), 100)

\* ------------------------------------------------------------ documents
\* Text extracted from a page: characters " " (whitespace) and "a" (ink).
Texts == {<<>>, <<" ">>, <<"a">>, <<" ", "a">>}
IsSpace(c) == c = " "
\* str.strip(): drop leading and trailing whitespace
RECURSIVE lstrip(_)
lstrip(s) == IF s # <<>> /\ IsSpace(Head(s)) THEN lstrip(Tail(s)) ELSE s
RECURSIVE rstrip(_)
rstrip(s) == IF s # <<>> /\ IsSpace(s[Len(s)])
             THEN rstrip(SubSeq(s, 1, Len(s) - 1)) ELSE s
strip(s) == rstrip(lstrip(s))

\* A page: load_page / get_text / get_images raise (loads = FALSE), or give
\* the page's text and its number of embedded images.
BrokenPage == [loads |-> FALSE, text |-> <<>>, images |-> 0]
PageKinds == {BrokenPage} \cup [loads : {TRUE}, text : Texts, images : 0..1]
PageSeqs(n) == UNION {[1..p -> PageKinds] : p \in 0..n}
\* A document's bytes as fitz sees them: fitz.open raises (opens = FALSE) or
\* yields the pages.
Documents(n) == [opens : {TRUE}, pages : PageSeqs(n)]
                    \cup {[opens |-> FALSE, pages |-> <<>>]}

Min(a, b) == IF a < b THEN a ELSE b
\* random.sample(range(total), k): every sequence of k distinct indices
RandomSamples(total, k) ==
    {s \in [1..k -> 0..(total - 1)] :
        \A i, j \in 1..k : i # j => s[i] # s[j]}

\* The loop of lines 86-92 over the sampled page numbers; an exception in it
\* is caught at line 93.
RECURSIVE ScanPages(_, _)
ScanPages(doc, sample_pages) ==
    IF sample_pages = <<>> THEN TRUE
    ELSE LET page == doc.pages[Head(sample_pages) + 1] IN
         IF ~page.loads THEN FALSE
         ELSE IF strip(page.text) # <<>> THEN FALSE
         ELSE IF page.images = 0 THEN FALSE
         ELSE ScanPages(doc, Tail(sample_pages))

\* Whether the loop of lines 86-92 raises: a sampled page fails to load
\* before a page with text or without images ends the loop.
RECURSIVE ScanRaises(_, _)
ScanRaises(doc, sample_pages) ==
    IF sample_pages = <<>> THEN FALSE
    ELSE LET page == doc.pages[Head(sample_pages) + 1] IN
         IF ~page.loads THEN TRUE
         ELSE IF strip(page.text) # <<>> THEN FALSE
         ELSE IF page.images = 0 THEN FALSE
         ELSE ScanRaises(doc, Tail(sample_pages))

\* Whether the call reaches the handler of line 93: fitz.open raised, or a
\* sampled page did.
caught_exception(doc, sample_pages) ==
    IF ~doc.opens THEN TRUE
    ELSE IF Len(doc.pages) = 0 THEN FALSE
    ELSE ScanRaises(doc, sample_pages)

\* is_scanned_pdf with "return True" in the handler of line 94
is_scanned_pdf_error_true(doc, num_pages_to_check, sample_pages) ==
    IF caught_exception(doc, sample_pages) THEN TRUE
    ELSE IF Len(doc.pages) = 0 THEN FALSE
    ELSE ScanPages(doc, sample_pages)

\* is_scanned_pdf without the test of lines 80-81
is_scanned_pdf_no_page_count(doc, num_pages_to_check, sample_pages) ==
    IF ~doc.opens THEN FALSE ELSE ScanPages(doc, sample_pages)

\* is_scanned_pdf(pdf_data, num_pages_to_check); sample_pages is the value
\* random.sample returns when it is reached.
is_scanned_pdf(doc, num_pages_to_check, sample_pages) ==
    IF ~doc.opens THEN FALSE
    ELSE IF Len(doc.pages) = 0 THEN FALSE
    ELSE ScanPages(doc, sample_pages)

\* SamplesFor drawing one page fewer than line 83 asks for
SamplesFor_one_fewer(doc, num_pages_to_check) ==
    RandomSamples(Len(doc.pages), Min(num_pages_to_check, Len(doc.pages)) - 1)

\* The samples random.sample can return for doc and num_pages_to_check.
SamplesFor(doc, num_pages_to_check) ==
    RandomSamples(Len(doc.pages), Min(num_pages_to_check, Len(doc.pages)))

\* ---------------------------------------------------------------- state
VARIABLES
    input_dir,   \* the (archive, entry) pairs under the input root
    mainpc,      \* main: "start", "pool", "done" (exit 0), "aborted" (traceback)
    task_args,   \* main's task list, a sequence of [zip_path, file_path]
    next_task,   \* index of the next task the pool hands to a worker
    frame,       \* per task: the locals of its process_file call, and where it is
    outq,        \* what imap_unordered has still to yield, in completion order
    fs,          \* the output tree: path -> bytes, or NoFile
    faults,      \* write_bytes / mkdir calls that have raised so far
    logs,        \* the lines logged by main, in order
    trace,       \* per task: the calls process_file has made, in order
    cl,          \* a call of is_scanned_pdf on its own: arguments and result
    call5        \* a call of process5.py's process_file: arguments and locals

vars == <<input_dir, mainpc, task_args, next_task, frame, outq, fs, faults,
          logs, trace, cl, call5>>

\* --------------------------------------------------------------- messages
ReadError == <<"read error">>
WriteError == <<"write error">>
ZeroDivisionError == <<"float division by zero">>
PdfDetail == <<"cannot open document">>
GsStderr == <<"gs stderr">>
OsError == <<"pipe error">>

\* zip_path.stem
stem(zip_path) == zip_path[2]
\* bucket_dir / zip_name / file_path
output_path(bucket, zip_name, file_path) == <<bucket, zip_name, file_path>>

\* The dict of lines 100-108.
InitialResult(zip_path, file_path) ==
    [zip_name |-> stem(zip_path),
     file_path |-> file_path,
     status |-> <<"failed">>,
     original_size |-> Zero,
     compressed_size |-> Zero,
     compression_ratio |-> Zero,
     error |-> <<>>]

IdleFrame ==
    [pc |-> "idle", file_data |-> NoData, compressed_data |-> NoData,
     exc |-> <<>>, result |-> InitialResult(<<"", "">>, "")]

\* One call made by process_file, as the trace records it.
Event(op, ok, bucket, data) == [op |-> op, ok |-> ok, bucket |-> bucket, data |-> data]

\* The call of is_scanned_pdf: what it returned, and whether an exception was
\* caught inside it.
ClassifyEvent(scanned, raised) ==
    [op |-> "classify", ok |-> scanned, bucket |-> "", data |-> <<>>,
     raised |-> raised]

\* compress_pdf_in_memory: Ghostscript exits 0 with its standard output,
\* exits non-zero with its standard error, or the pipe fails.
GsOutcomes ==
    {[kind |-> "exit0", out |-> GsBytes(m)] : m \in 0..MaxLen}
        \cup {[kind |-> "nonzero", out |-> <<>>], [kind |-> "oserror", out |-> <<>>]}
compress_pdf_in_memory(gs) ==
    IF gs.kind = "exit0"
    THEN [raised |-> FALSE, value |-> gs.out, msg |-> <<>>]
    ELSE IF gs.kind = "nonzero"
    THEN [raised |-> TRUE, value |-> NoData,
          msg |-> <<"Compression failed: ", "Ghostscript error: ">> \o GsStderr]
    ELSE [raised |-> TRUE, value |-> NoData,
          msg |-> <<"Compression failed: ">> \o OsError]

\* output_path.parent.mkdir(...); output_path.write_bytes(data): the data is
\* written; or mkdir / open raises and nothing changes; or the file is
\* created and the write raises after a proper prefix of the data.
WriteBytes(f, path, data) ==
    {[raised |-> FALSE, fs |-> [f EXCEPT ![path] = data]],
     [raised |-> TRUE, fs |-> f]}
        \cup {[raised |-> TRUE, fs |-> [f EXCEPT ![path] = SubSeq(data, 1, k)]] :
                k \in 0..(IF Len(data) = 0 THEN 0 ELSE Len(data) - 1)}
MayRaise(w) == w.raised => faults < MaxWriteFaults
Raised(w) == IF w.raised THEN 1 ELSE 0

\* ------------------------------------------------------------------ Init
\* None, as the value of a local of process5.py's process_file
None == <<>>
NoCall5 == [pc |-> "none", input_path |-> "", output_path |-> "",
            original_size |-> None, compressed_size |-> None, ratio |-> None,
            error_msg |-> None]

NoCall == [pc |-> "none", doc |-> [opens |-> FALSE, pages |-> <<>>],
           num_pages_to_check |-> 0, sample_pages |-> <<>>, result |-> FALSE]

Init ==
    /\ input_dir \in {c \in SUBSET (ArchivePaths \X EntryNames) :
                        Cardinality(c) <= MaxTasks}
    /\ mainpc = "start"
    /\ task_args = <<>>
    /\ next_task = 1
    /\ frame = [t \in Tasks |-> IdleFrame]
    /\ outq = <<>>
    /\ fs = [p \in Paths |-> NoFile]
    /\ faults = 0
    /\ logs = <<>>
    /\ trace = [t \in Tasks |-> <<>>]
    /\ cl = NoCall
    /\ call5 = NoCall5

\* ------------------------------------------------------------------ main
\* Lines 197-212: one task per entry, the entries of an archive together,
\* the archives in the order glob yields them.
TaskLists(c) ==
    {s \in [1..Cardinality(c) -> c] :
        /\ \A i, j \in 1..Cardinality(c) : i # j => s[i] # s[j]
        /\ \A i, j, k \in 1..Cardinality(c) :
              (i < k /\ k < j /\ s[i][1] = s[j][1]) => s[k][1] = s[i][1]}

Enumerate ==
    /\ mainpc = "start"
    /\ \E s \in TaskLists(input_dir) :
          task_args' = [i \in 1..Len(s) |->
                           [zip_path |-> s[i][1], file_path |-> s[i][2]]]
    /\ mainpc' = "pool"
    /\ UNCHANGED <<input_dir, next_task, frame, outq, fs, faults, logs, trace, cl, call5>>

\* The calls of process_file that a worker of the pool is running.
Running == {t \in Tasks : frame[t].pc \notin {"idle", "over", "raised", "terminated"}}

\* The pool hands the next task of the list to a free worker (lines 215-216);
\* process_file starts with lines 98-108.
Take(t) ==
    /\ mainpc = "pool"
    /\ t = next_task
    /\ next_task <= Len(task_args)
    /\ Cardinality(Running) < NumWorkers
    /\ frame' = [frame EXCEPT ![t] =
                    [IdleFrame EXCEPT
                        !.pc = "read",
                        !.result = InitialResult(task_args[t].zip_path,
                                                 task_args[t].file_path)]]
    /\ next_task' = next_task + 1
    /\ UNCHANGED <<input_dir, mainpc, task_args, outq, fs, faults, logs, trace, cl, call5>>

\* ---------------------------------------------------------- process_file
Record(t, e) == [trace EXCEPT ![t] = Append(@, e)]
Goto(t, f) == frame' = [frame EXCEPT ![t] = f]
\* process_file is over, returning result (pc "over") or raising exc (pc
\* "raised"): the pool queues the outcome and the worker is free again.
Return(t, result) ==
    /\ frame' = [frame EXCEPT ![t].pc = "over", ![t].result = result]
    /\ outq' = Append(outq, [task |-> t, raised |-> FALSE, result |-> result])
Raise(t, result, exc) ==
    /\ frame' = [frame EXCEPT ![t].pc = "raised", ![t].result = result, ![t].exc = exc]
    /\ outq' = Append(outq, [task |-> t, raised |-> TRUE, result |-> result])

\* Lines 112-114: read the entry; a failure is caught at line 165.
Read(t) ==
    LET f == frame[t] IN
    /\ f.pc = "read"
    /\ \/ \E n \in 0..MaxLen :
            LET file_data == EntryBytes(t, n) IN
            /\ Goto(t, [f EXCEPT !.pc = "validate",
                                 !.file_data = file_data,
                                 !.result.original_size = KB(file_data)])
            /\ trace' = Record(t, Event("read", TRUE, "", file_data))
       \/ /\ Goto(t, [f EXCEPT !.pc = "outer_except", !.exc = ReadError])
          /\ trace' = Record(t, Event("read", FALSE, "", <<>>))
    /\ UNCHANGED <<input_dir, mainpc, task_args, next_task, outq, fs, faults, logs, cl, call5>>

\* Line 121: Exception(f"Invalid PDF: {str(e)}")
invalid_pdf(exc) == <<"Invalid PDF: ">> \o exc

\* Lines 117-121: fitz opens the bytes or raises; no bytes are no document.
Validate(t) ==
    LET f == frame[t] IN
    /\ f.pc = "validate"
    /\ \/ /\ Len(f.file_data) > 0
          /\ Goto(t, [f EXCEPT !.pc = "classify"])
          /\ trace' = Record(t, Event("validate", TRUE, "", <<>>))
       \/ /\ Goto(t, [f EXCEPT !.pc = "outer_except",
                               !.exc = <<"Invalid PDF: ">> \o PdfDetail])
          /\ trace' = Record(t, Event("validate", FALSE, "", <<>>))
    /\ UNCHANGED <<input_dir, mainpc, task_args, next_task, outq, fs, faults, logs, cl, call5>>

\* What is_scanned_pdf(file_data) can return at line 124, and whether it got
\* there through its exception handler, over the documents the bytes may hold
\* and the pages random.sample may pick.
Verdicts ==
    {[scanned |-> is_scanned_pdf(c[1], NumPagesToCheck, c[2]),
      raised |-> caught_exception(c[1], c[2])] :
        c \in UNION {{<<doc, sample_pages>> :
                        sample_pages \in SamplesFor(doc, NumPagesToCheck)} :
                     doc \in Documents(MaxDocPages)}}

\* Line 124.
Classify(t) ==
    LET f == frame[t] IN
    /\ f.pc = "classify"
    /\ \E v \in Verdicts :
          /\ Goto(t, [f EXCEPT !.pc = IF v.scanned THEN "write_scanned"
                                                     ELSE "compress"])
          /\ trace' = Record(t, ClassifyEvent(v.scanned, v.raised))
    /\ UNCHANGED <<input_dir, mainpc, task_args, next_task, outq, fs, faults, logs, cl, call5>>

\* scanned_result without line 130
scanned_result_size_unset(result) ==
    [result EXCEPT !.status = <<"success (", "scanned", ")">>]

\* Lines 128-131: result.update on the scanned branch.
scanned_result(result) ==
    [result EXCEPT !.status = <<"success (", "scanned", ")">>,
                   !.compressed_size = result.original_size]

\* Lines 125-132: the scanned branch.
WriteScanned(t) ==
    LET f == frame[t]
        path == output_path("scanned_images", f.result.zip_name, f.result.file_path)
    IN
    /\ f.pc = "write_scanned"
    /\ \E wr \in WriteBytes(fs, path, f.file_data) :
          /\ MayRaise(wr)
          /\ fs' = wr.fs
          /\ faults' = faults + Raised(wr)
          /\ trace' = Record(t,
                             Event("write", ~wr.raised, "scanned_images", f.file_data))
          /\ IF wr.raised
             THEN /\ Goto(t, [f EXCEPT !.pc = "outer_except", !.exc = WriteError])
                  /\ outq' = outq
             ELSE Return(t, scanned_result(f.result))
    /\ UNCHANGED <<input_dir, mainpc, task_args, next_task, logs, cl, call5>>

\* Line 136: the call of compress_pdf_in_memory.
Compress(t) ==
    LET f == frame[t] IN
    /\ f.pc = "compress"
    /\ \E gs \in GsOutcomes :
          LET r == compress_pdf_in_memory(gs) IN
          /\ trace' = Record(t,
                             Event("compress", ~r.raised, "",
                                   IF r.raised THEN <<>> ELSE r.value))
          /\ IF r.raised
             THEN Goto(t, [f EXCEPT !.pc = "inner_except", !.exc = r.msg])
             ELSE Goto(t, [f EXCEPT !.pc = "write_compressed",
                                    !.compressed_data = r.value])
    /\ UNCHANGED <<input_dir, mainpc, task_args, next_task, outq, fs, faults, logs, cl, call5>>

\* save_data with the comparison of line 139 lost
save_data_always_output(file_data, compressed_data, original_size) == compressed_data
\* compression_status with <= for the < of line 139
compression_status_not_larger(compressed_data, original_size) ==
    IF ~RatLess(original_size, KB(compressed_data))
    THEN "compressed" ELSE "uncompressed (larger size)"

\* Lines 139-146: which bytes to save and what to call the outcome.
save_data(file_data, compressed_data, original_size) ==
    IF RatLess(KB(compressed_data), original_size) THEN compressed_data ELSE file_data
compression_status(compressed_data, original_size) ==
    IF RatLess(KB(compressed_data), original_size)
    THEN "compressed" ELSE "uncompressed (larger size)"

\* Lines 151-156: result.update after the write to the compressed bucket.
compressed_result(result, file_data, compressed_data) ==
    LET data == save_data(file_data, compressed_data, result.original_size) IN
    [result EXCEPT
        !.status = <<"success (",
                     compression_status(compressed_data, result.original_size), ")">>,
        !.compressed_size = KB(data),
        !.compression_ratio = Ratio(result.original_size, KB(data))]

\* Lines 137-156: compare, write to the compressed bucket, fill the result.
\* An exception (the write, the division) is caught at line 158.
WriteCompressed(t) ==
    LET f == frame[t]
        path == output_path("compressed", f.result.zip_name, f.result.file_path)
        data == save_data(f.file_data, f.compressed_data, f.result.original_size)
    IN
    /\ f.pc = "write_compressed"
    /\ \E wr \in WriteBytes(fs, path, data) :
          /\ MayRaise(wr)
          /\ fs' = wr.fs
          /\ faults' = faults + Raised(wr)
          /\ trace' = Record(t, Event("write", ~wr.raised, "compressed", data))
          /\ IF wr.raised
             THEN /\ Goto(t, [f EXCEPT !.pc = "inner_except", !.exc = WriteError])
                  /\ outq' = outq
             ELSE IF f.result.original_size[1] = 0
             THEN /\ Goto(t, [f EXCEPT !.pc = "inner_except",
                                       !.exc = ZeroDivisionError])
                  /\ outq' = outq
             ELSE Return(t, compressed_result(f.result, f.file_data,
                                              f.compressed_data))
    /\ UNCHANGED <<input_dir, mainpc, task_args, next_task, logs, cl, call5>>

\* Line 163: Exception(f"Compression failed: {str(e)}")
compression_failed(exc) == <<"Compression failed: ">> \o exc

\* Lines 158-163: the handler of the compression attempt writes the original
\* bytes to the failure bucket and raises "Compression failed: ..."; if its
\* own write raises, that exception goes on to line 165 instead.
InnerExcept(t) ==
    LET f == frame[t]
        path == output_path("failure", f.result.zip_name, f.result.file_path)
    IN
    /\ f.pc = "inner_except"
    /\ \E wr \in WriteBytes(fs, path, f.file_data) :
          /\ MayRaise(wr)
          /\ fs' = wr.fs
          /\ faults' = faults + Raised(wr)
          /\ trace' = Record(t, Event("write", ~wr.raised, "failure", f.file_data))
          /\ Goto(t, [f EXCEPT
                        !.pc = "outer_except",
                        !.exc = IF wr.raised THEN WriteError
                                ELSE compression_failed(f.exc)])
    /\ UNCHANGED <<input_dir, mainpc, task_args, next_task, outq, logs, cl, call5>>

\* Line 174: file_data if 'file_data' in locals() else b''
fallback_bytes(file_data) == IF file_data # NoData THEN file_data ELSE EmptyBytes

\* failed_result that also sets original_size back to 0
failed_result_size_reset(result, exc) ==
    [result EXCEPT !.status = <<"failed: ">> \o exc,
                   !.error = exc,
                   !.original_size = Zero,
                   !.compressed_size = Zero]

\* Lines 166-170: result.update in the handler at the task boundary.
failed_result(result, exc) ==
    [result EXCEPT !.status = <<"failed: ">> \o exc,
                   !.error = exc,
                   !.compressed_size = result.original_size]

\* Lines 165-176: the handler at the task boundary fills the result, writes to
\* the failure bucket and returns; if its write raises, the exception leaves
\* process_file.
OuterExcept(t) ==
    LET f == frame[t]
        path == output_path("failure", f.result.zip_name, f.result.file_path)
        data == fallback_bytes(f.file_data)
        result == failed_result(f.result, f.exc)
    IN
    /\ f.pc = "outer_except"
    /\ \E wr \in WriteBytes(fs, path, data) :
          /\ MayRaise(wr)
          /\ fs' = wr.fs
          /\ faults' = faults + Raised(wr)
          /\ trace' = Record(t, Event("write", ~wr.raised, "failure", data))
          /\ IF wr.raised
             THEN Raise(t, result, WriteError)
             ELSE Return(t, result)
    /\ UNCHANGED <<input_dir, mainpc, task_args, next_task, logs, cl, call5>>

\* ------------------------------------------------------ main's result loop
\* 'failed' in text, for the tokens that occur in a status
HasFailed(text) ==
    \E i \in 1..Len(text) : text[i] \in {"failed", "failed: ", "Compression failed: "}
\* f"{x:.2f}": x rounded to hundredths (x >= 0)
Fmt2(x) == (2 * 100 * x[1] + x[2]) \div (2 * x[2])
\* Lines 218-226.
log_msg(result) ==
    [file_path |-> result.file_path,
     status |-> result.status,
     original |-> Fmt2(result.original_size),
     compressed |-> Fmt2(result.compressed_size),
     ratio |-> Fmt2(result.compression_ratio),
     error |-> result.error]
\* level without the test of line 228
level_always_info(result) == "INFO"

\* Lines 228-231.
level(result) == IF HasFailed(result.status) THEN "ERROR" ELSE "INFO"

\* One turn of the loop of line 216: imap_unordered yields the next finished
\* result, which is logged to its archive's logger (lines 217-231); or it
\* re-raises what the task raised, main leaves the with block (the pool is
\* terminated) and dies with a traceback.
LogResult ==
    /\ mainpc = "pool"
    /\ outq # <<>>
    /\ LET item == Head(outq) IN
       IF item.raised
       THEN /\ mainpc' = "aborted"
            /\ frame' = [t \in Tasks |->
                           IF t \in Running
                           THEN [frame[t] EXCEPT !.pc = "terminated"] ELSE frame[t]]
            /\ logs' = logs
       ELSE /\ logs' = Append(logs, [logger |-> item.result.zip_name,
                                     level |-> level(item.result),
                                     msg |-> log_msg(item.result),
                                     task |-> item.task])
            /\ UNCHANGED <<mainpc, frame>>
    /\ outq' = Tail(outq)
    /\ UNCHANGED <<input_dir, task_args, next_task, fs, faults, trace, cl, call5>>

\* The loop ends when every task's result has been yielded; main returns.
Exit ==
    /\ mainpc = "pool"
    /\ Len(logs) = Len(task_args)
    /\ mainpc' = "done"
    /\ UNCHANGED <<input_dir, task_args, next_task, frame, outq, fs, faults, logs,
                   trace, cl, call5>>

Next ==
    \/ Enumerate
    \/ \E t \in Tasks : Take(t)
    \/ \E t \in Tasks : Read(t)
    \/ \E t \in Tasks : Validate(t)
    \/ \E t \in Tasks : Classify(t)
    \/ \E t \in Tasks : WriteScanned(t)
    \/ \E t \in Tasks : Compress(t)
    \/ \E t \in Tasks : WriteCompressed(t)
    \/ \E t \in Tasks : InnerExcept(t)
    \/ \E t \in Tasks : OuterExcept(t)
    \/ LogResult
    \/ Exit

Spec == Init /\ [][Next]_vars

\* The same program on an input root holding one archive with one entry.
InitSingle == Init /\ Cardinality(input_dir) = 1
SpecSingle == InitSingle /\ [][Next]_vars

\* ------------------------------------------------- the classifier alone
InitClassifier ==
    /\ input_dir = {}
    /\ mainpc = "start"
    /\ task_args = <<>>
    /\ next_task = 1
    /\ frame = [t \in Tasks |-> IdleFrame]
    /\ outq = <<>>
    /\ fs = [p \in Paths |-> NoFile]
    /\ faults = 0
    /\ logs = <<>>
    /\ trace = [t \in Tasks |-> <<>>]
    /\ cl \in [pc : {"call"}, doc : Documents(MaxPages),
               num_pages_to_check : 0..MaxK, sample_pages : {<<>>},
               result : {FALSE}]
    /\ call5 = NoCall5

\* is_scanned_pdf(doc, num_pages_to_check) runs, random.sample choosing.
CallClassifier ==
    /\ cl.pc = "call"
    /\ \E sample_pages \in SamplesFor(cl.doc, cl.num_pages_to_check) :
          cl' = [cl EXCEPT
                    !.pc = "returned",
                    !.sample_pages = sample_pages,
                    !.result = is_scanned_pdf(cl.doc, cl.num_pages_to_check,
                                              sample_pages)]
    /\ UNCHANGED <<input_dir, mainpc, task_args, next_task, frame, outq, fs, faults,
                   logs, trace, call5>>

SpecClassifier == InitClassifier /\ [][CallClassifier]_vars

\* ------------------------------------------- process5.py: process_file
\* The (input_path, output_path) pairs main hands to process_file.
Tasks5 == {<<"in/a.pdf", "out/a.pdf">>, <<"in/b.pdf", "out/b.pdf">>,
           <<"in/s/a.pdf", "out/s/a.pdf">>, <<"in/s/c.pdf", "out/s/c.pdf">>}
\* exit statuses of Ghostscript other than 0, as they print
ReturnCodes == {"1", "255"}
StatError == <<"stat error">>
\* float('inf')
Inf == <<1, 0>>

\* size_ratio giving None for an empty input
size_ratio_none_for_empty(original_size, compressed_size) ==
    IF original_size > 0 THEN Rat(compressed_size, original_size) ELSE None

\* Lines 75-78: compressed_size / original_size, or inf for an empty input.
size_ratio(original_size, compressed_size) ==
    IF original_size > 0 THEN Rat(compressed_size, original_size) ELSE Inf

InitVariant ==
    /\ input_dir = {}
    /\ mainpc = "start"
    /\ task_args = <<>>
    /\ next_task = 1
    /\ frame = [t \in Tasks |-> IdleFrame]
    /\ outq = <<>>
    /\ fs = [p \in Paths |-> NoFile]
    /\ faults = 0
    /\ logs = <<>>
    /\ trace = [t \in Tasks |-> <<>>]
    /\ cl = NoCall
    /\ call5 \in {[NoCall5 EXCEPT !.pc = "makedirs", !.input_path = t[1],
                                  !.output_path = t[2]] : t \in Tasks5}

Others5 == <<input_dir, mainpc, task_args, next_task, frame, outq, fs, faults,
             logs, trace, cl>>

\* Lines 23-24 (and 47-50): os.makedirs returns, or raises out of the call.
Makedirs5 ==
    /\ call5.pc = "makedirs"
    /\ \/ call5' = [call5 EXCEPT !.pc = "getsize"]
       \/ call5' = [call5 EXCEPT !.pc = "raised"]
    /\ UNCHANGED Others5

\* Lines 52-57: the size of the input, or the early return with its error.
OriginalSize5 ==
    /\ call5.pc = "getsize"
    /\ \/ \E n \in 0..MaxLen :
            call5' = [call5 EXCEPT !.pc = "run", !.original_size = <<n>>]
       \/ call5' = [call5 EXCEPT
                       !.pc = "returned",
                       !.error_msg = <<"Error getting original size: ">>
                                        \o StatError]
    /\ UNCHANGED Others5

\* Lines 59-70: Ghostscript exits 0; or exits with another status and its
\* standard error is reported, unless it is not UTF-8 and decode raises
\* inside the handler; or running it raises something else.
RunGhostscript5 ==
    /\ call5.pc = "run"
    /\ \/ call5' = [call5 EXCEPT !.pc = "compressed_size"]
       \/ \E returncode \in ReturnCodes :
            call5' = [call5 EXCEPT
                         !.pc = "returned",
                         !.error_msg = <<"Ghostscript error (", returncode, "): ">>
                                          \o GsStderr]
       \/ call5' = [call5 EXCEPT !.pc = "raised"]
       \/ call5' = [call5 EXCEPT
                       !.pc = "returned",
                       !.error_msg = <<"Unexpected error: ">> \o OsError]
    /\ UNCHANGED Others5

\* Lines 71-82: the size of the output and the ratio, or the error of
\* reading that size; then the return.
CompressedSize5 ==
    /\ call5.pc = "compressed_size"
    /\ \/ \E m \in 0..MaxLen :
            call5' = [call5 EXCEPT
                         !.pc = "returned",
                         !.compressed_size = <<m>>,
                         !.ratio = size_ratio(call5.original_size[1], m)]
       \/ call5' = [call5 EXCEPT
                       !.pc = "returned",
                       !.error_msg = <<"Error getting compressed size: ">>
                                        \o StatError]
    /\ UNCHANGED Others5

NextVariant ==
    \/ Makedirs5
    \/ OriginalSize5
    \/ RunGhostscript5
    \/ CompressedSize5

SpecVariant == InitVariant /\ [][NextVariant]_vars

\* ================================================================ claims
Over(t) == frame[t].pc = "over"
Ended(t) == frame[t].pc \in {"over", "raised"}
\* the task's calls of one kind, in order
Calls(t, op) == SelectSeq(trace[t], LAMBDA e : e.op = op)
CompletedWrites(t) == SelectSeq(trace[t], LAMBDA e : e.op = "write" /\ e.ok)
\* the buckets that hold a file at the task's destination
BucketsHolding(t) ==
    {b \in Buckets :
        fs[<<b, frame[t].result.zip_name, frame[t].result.file_path>>] # NoFile}
BeginsWithFailed(status) == status # <<>> /\ Head(status) \in {"failed", "failed: "}
BeginsWith(text, prefix) ==
    Len(text) >= Len(prefix) /\ SubSeq(text, 1, Len(prefix)) = prefix
IsStatus(t, word) == frame[t].result.status = <<"success (", word, ")">>

\* C1: for every task whose process_file call has returned, a file exists at
\* <bucket>/<archive id>/<entry path> for exactly one of the three buckets.
C1_ExactlyOneBucket ==
    \A t \in Tasks : Over(t) => Cardinality(BucketsHolding(t)) = 1

\* C2: process_file never raises, and whenever a read, a validation, a
\* compression or a write has raised in a call that returned, the result's
\* status begins with 'failed'.
C2_NoErrorEscapes ==
    \A t \in Tasks :
        /\ frame[t].pc # "raised"
        /\ (Over(t) /\ \E i \in 1..Len(trace[t]) :
                          trace[t][i].op # "classify" /\ ~trace[t][i].ok)
              => BeginsWithFailed(frame[t].result.status)

\* C3: every run ends with main returning normally (exit status 0) after
\* every enumerated task has been executed once and its result logged once:
\* a state in which nothing more can happen is such a state.
C3_RunCompletes ==
    (~ENABLED Next) =>
        /\ mainpc = "done"
        /\ \A t \in 1..Len(task_args) :
              /\ Len(Calls(t, "read")) = 1
              /\ Cardinality({i \in 1..Len(logs) : logs[i].task = t}) = 1

\* C4: two distinct tasks of main's list never have the same destination
\* path in a bucket, so two running tasks never share a destination.
C4_DistinctDestinations ==
    \A i, j \in 1..Len(task_args) :
        i # j => \A b \in Buckets :
            output_path(b, stem(task_args[i].zip_path), task_args[i].file_path)
                # output_path(b, stem(task_args[j].zip_path), task_args[j].file_path)

\* C5: a call of process_file that has returned has carried out exactly one
\* file write.
C5_ExactlyOneWrite ==
    \A t \in Tasks : Over(t) => Len(CompletedWrites(t)) = 1

\* the step task t takes from one place of process_file
Step(t, from) == frame[t].pc = from /\ frame'[t].pc \notin {from, "terminated"}
\* the step in which process_file returns for task t
Returns(t) == frame[t].pc # "over" /\ frame'[t].pc = "over"
\* the destination of task t in a bucket
Dest(t, b) == <<b, frame[t].result.zip_name, frame[t].result.file_path>>
\* n bytes in KB, and the percentage saved going from n bytes to m bytes
KBytes(n) == <<n, 1024>>
Percent(n, m) == <<(n - m) * 100, n>>
LastCall(t) == trace'[t][Len(trace'[t])]
\* Ghostscript has returned an output for task t
GsOutput(t) == frame[t].compressed_data # NoData

\* C6: when process_file returns 'success (compressed)', the compressor's
\* output is strictly shorter than the entry, the file in the compressed
\* bucket is that output, compressed_size < original_size, and
\* compression_ratio = (original - compressed) / original * 100 > 0; from
\* 512000 to 307200 bytes the ratio is 40.
C6_CompressedSuccess ==
    [][\A t \in Tasks :
          (Returns(t) /\ frame'[t].result.status = <<"success (", "compressed", ")">>)
          => LET original == frame[t].file_data
                 output == frame[t].compressed_data
                 r == frame'[t].result
             IN /\ GsOutput(t)
                /\ Len(output) < Len(original)
                /\ fs'[Dest(t, "compressed")] = output
                /\ RatEq(r.original_size, KBytes(Len(original)))
                /\ RatEq(r.compressed_size, KBytes(Len(output)))
                /\ RatLess(r.compressed_size, r.original_size)
                /\ RatEq(r.compression_ratio, Percent(Len(original), Len(output)))
                /\ RatLess(Zero, r.compression_ratio)
                /\ RatEq(Ratio(size_kb(512000), size_kb(307200)), <<40, 1>>)
      ]_vars
C6_Witness ==
    \E t \in Tasks : Over(t) /\ IsStatus(t, "compressed")
                        /\ Len(frame[t].compressed_data) = 1
                        /\ Len(frame[t].file_data) = 2

\* C7: when Ghostscript's output is not strictly shorter than the entry
\* (equal length included), the write process_file makes to the compressed
\* bucket carries the entry's bytes, not the output; a success is then
\* 'success (uncompressed (larger size))' with those bytes in the file; and
\* every result returned after it has compressed_size = original_size and
\* compression_ratio = 0.
C7_FallbackWritesOriginal ==
    [][\A t \in Tasks :
          LET original == frame[t].file_data
              output == frame[t].compressed_data
              r == frame'[t].result
          IN /\ (Step(t, "write_compressed") /\ Len(output) >= Len(original))
                => /\ LastCall(t).op = "write"
                   /\ LastCall(t).bucket = "compressed"
                   /\ LastCall(t).data = original
                   /\ Returns(t) =>
                        /\ r.status = <<"success (", "uncompressed (larger size)", ")">>
                        /\ fs'[Dest(t, "compressed")] = original
             /\ (Returns(t) /\ GsOutput(t) /\ Len(output) >= Len(original))
                => /\ RatEq(r.compressed_size, r.original_size)
                   /\ RatEq(r.original_size, KBytes(Len(original)))
                   /\ RatEq(r.compression_ratio, Zero)
      ]_vars
C7_Witness ==
    \E t \in Tasks : /\ Over(t) /\ IsStatus(t, "uncompressed (larger size)")
                     /\ Len(frame[t].compressed_data) = Len(frame[t].file_data)
                     /\ frame[t].compressed_data # frame[t].file_data
                     /\ fs[Dest(t, "compressed")] = frame[t].file_data

Called(t, op, ok) == \E i \in 1..Len(trace[t]) : trace[t][i].op = op /\ trace[t][i].ok = ok

\* C8, as claimed: whenever the classifier has returned true, process_file
\* ends by returning 'success (scanned)' with compressed_size =
\* original_size and compression_ratio = 0, having written the entry's bytes
\* to the scanned bucket and never called the compressor.
C8_ScannedAlwaysSucceeds ==
    \A t \in Tasks :
        (Ended(t) /\ Called(t, "classify", TRUE))
        => /\ Over(t)
           /\ IsStatus(t, "scanned")
           /\ Calls(t, "compress") = <<>>
           /\ Calls(t, "write") =
                <<Event("write", TRUE, "scanned_images", frame[t].file_data)>>
           /\ RatEq(frame[t].result.compressed_size, frame[t].result.original_size)
           /\ RatEq(frame[t].result.compression_ratio, Zero)

\* C8, amended: whenever the classifier returns true, process_file goes on to
\* write the entry's unchanged bytes to the scanned bucket and never calls the
\* compressor; if that write succeeds, process_file returns
\* 'success (scanned)' with the bytes in the file, compressed_size =
\* original_size and compression_ratio = 0.
C8_ScannedRoute ==
    [][\A t \in Tasks :
          LET original == frame[t].file_data
              r == frame'[t].result
          IN /\ (Step(t, "classify") /\ LastCall(t).ok) => frame'[t].pc = "write_scanned"
             /\ Called(t, "classify", TRUE) => Calls(t, "compress")' = <<>>
             /\ Step(t, "write_scanned")
                => /\ Called(t, "classify", TRUE)
                   /\ LastCall(t).op = "write"
                   /\ LastCall(t).bucket = "scanned_images"
                   /\ LastCall(t).data = original
                   /\ LastCall(t).ok =>
                        /\ Returns(t)
                        /\ r.status = <<"success (", "scanned", ")">>
                        /\ fs'[Dest(t, "scanned_images")] = original
                        /\ RatEq(r.original_size, KBytes(Len(original)))
                        /\ RatEq(r.compressed_size, r.original_size)
                        /\ RatEq(r.compression_ratio, Zero)
      ]_vars
C8_Witness ==
    \E t \in Tasks : /\ Over(t) /\ IsStatus(t, "scanned")
                     /\ Len(frame[t].file_data) = 2
                     /\ fs[Dest(t, "scanned_images")] = frame[t].file_data

\* C9: when process_file returns a 'failed' result, the file in the failure
\* bucket holds the entry's bytes if the read succeeded and is empty if it
\* failed; the status is 'failed: <read error>' after a failed read, begins
\* with 'failed: Invalid PDF: ' after a failed validation and begins with
\* 'failed: Compression failed: ' after a compression that raised.
C9_FailureOutcomes ==
    [][\A t \in Tasks :
          (Returns(t) /\ BeginsWithFailed(frame'[t].result.status))
          => LET status == frame'[t].result.status IN
             /\ fs'[Dest(t, "failure")] =
                    IF Called(t, "read", TRUE) THEN frame[t].file_data ELSE EmptyBytes
             /\ Called(t, "read", FALSE) => status = <<"failed: ">> \o ReadError
             /\ Called(t, "validate", FALSE)
                    => BeginsWith(status, <<"failed: ", "Invalid PDF: ">>)
             /\ Called(t, "compress", FALSE)
                    => BeginsWith(status, <<"failed: ", "Compression failed: ">>)
      ]_vars

\* the pages random.sample picked in the call cl
SampledPages == {cl.doc.pages[cl.sample_pages[i] + 1] : i \in 1..Len(cl.sample_pages)}
\* the sample holds min(k, P) distinct pages
SampleIsFair ==
    /\ Len(cl.sample_pages) = Min(cl.num_pages_to_check, Len(cl.doc.pages))
    /\ Cardinality({cl.sample_pages[i] : i \in 1..Len(cl.sample_pages)})
          = Len(cl.sample_pages)
OnlyWhitespace(text) == \A i \in 1..Len(text) : text[i] = " "

\* C10, as claimed: is_scanned_pdf returns true if and only if the document
\* parses, has at least one page, and every one of the min(k, P) sampled
\* pages has empty text and at least one image.
C10_TrueIffEmptyTextAndImage ==
    cl.pc = "returned" =>
        /\ SampleIsFair
        /\ cl.result <=>
             /\ cl.doc.opens
             /\ Len(cl.doc.pages) >= 1
             /\ \A page \in SampledPages :
                   page.loads /\ page.text = <<>> /\ page.images >= 1

\* C10, amended: is_scanned_pdf returns true if and only if the document
\* parses, has at least one page, and every one of the min(k, P) sampled
\* pages has no text but whitespace and at least one image.
C10_TrueIffBlankTextAndImage ==
    cl.pc = "returned" =>
        /\ SampleIsFair
        /\ cl.result <=>
             /\ cl.doc.opens
             /\ Len(cl.doc.pages) >= 1
             /\ \A page \in SampledPages :
                   page.loads /\ OnlyWhitespace(page.text) /\ page.images >= 1
C10_Witness ==
    /\ cl.pc = "returned"
    /\ cl.result
    /\ Len(cl.sample_pages) = 2
    /\ Len(cl.doc.pages) = 3
    /\ \E page \in SampledPages : page.text = <<" ">>
    /\ \E i \in 1..3 : cl.doc.pages[i].text = <<"a">>

\* the calls of task t other than file writes, by name, in order
StepsTaken(t) ==
    LET calls == SelectSeq(trace[t], LAMBDA e : e.op # "write")
    IN [i \in 1..Len(calls) |-> calls[i].op]
\* read, validate, classify and the compressor: all succeeded but the
\* classifier, which returned false
ReachedCompressor(t) ==
    /\ Called(t, "read", TRUE)
    /\ Called(t, "validate", TRUE)
    /\ Called(t, "classify", FALSE)

\* C11: process_file reads, validates, classifies and then writes to the
\* scanned bucket or calls the compressor, each step at most once and in
\* that order; no validation follows a failed read, no classification a
\* failed validation; when the call is over the compressor has been called
\* if and only if read and validation succeeded and the classifier returned
\* false; and every call ends in a returned result: it neither raises nor is
\* cut short.
C11_OrderedSteps ==
    \A t \in Tasks :
        /\ BeginsWith(<<"read", "validate", "classify", "compress">>, StepsTaken(t))
        /\ Called(t, "read", FALSE) => StepsTaken(t) = <<"read">>
        /\ Called(t, "validate", FALSE) => StepsTaken(t) = <<"read", "validate">>
        /\ Called(t, "classify", TRUE)
              => \A i \in 1..Len(trace[t]) :
                    trace[t][i].op = "write" /\ trace[t][i].bucket # "failure"
                        => trace[t][i].bucket = "scanned_images"
        /\ Ended(t) => ((Calls(t, "compress") # <<>>) <=> ReachedCompressor(t))
        /\ frame[t].pc \notin {"raised", "terminated"}

\* an exception was caught inside the task's call of is_scanned_pdf
ClassifierRaised(t) ==
    \E i \in 1..Len(trace[t]) : trace[t][i].op = "classify" /\ trace[t][i].raised
\* a write of the task has raised, as of the next state
SomeWriteRaised(t) ==
    \E i \in 1..Len(trace'[t]) : trace'[t][i].op = "write" /\ ~trace'[t][i].ok

\* C12: an exception inside is_scanned_pdf makes it return false and
\* process_file goes on to call the compressor; if the compressor then
\* returns and no write raises, the result is a success, the file is in the
\* compressed bucket and no write was made to the failure bucket: a failed
\* status after a classifier error comes from the compressor or from a write.
C12_ClassifierFailsOpen ==
    [][\A t \in Tasks :
          /\ (Step(t, "classify") /\ LastCall(t).raised)
                => /\ ~LastCall(t).ok
                   /\ frame'[t].pc = "compress"
          /\ (Step(t, "compress") /\ ClassifierRaised(t))
                => /\ LastCall(t).op = "compress"
                   /\ Calls(t, "write") = <<>>
          /\ (Returns(t) /\ ClassifierRaised(t))
                => \/ Called(t, "compress", FALSE)
                   \/ SomeWriteRaised(t)
                   \/ /\ ~BeginsWithFailed(frame'[t].result.status)
                      /\ Head(frame'[t].result.status) = "success ("
                      /\ frame'[t].result.error = <<>>
                      /\ fs'[Dest(t, "compressed")] # NoFile
                      /\ \A i \in 1..Len(trace'[t]) :
                            trace'[t][i].op = "write"
                                => trace'[t][i].bucket = "compressed"
      ]_vars
C12_Witness ==
    \E t \in Tasks : /\ Over(t) /\ ClassifierRaised(t)
                     /\ IsStatus(t, "compressed")
                     /\ fs[Dest(t, "failure")] = NoFile
                     /\ fs[Dest(t, "compressed")] = frame[t].compressed_data

BeginsWithSuccess(status) == status # <<>> /\ Head(status) = "success ("

\* C13: for every result process_file has returned, the status begins with
\* 'failed' exactly when the task's file is in the failure bucket and with
\* 'success' exactly when it is in the compressed or the scanned bucket.
C13_StatusMatchesBucket ==
    \A t \in Tasks :
        Over(t) =>
            LET status == frame[t].result.status
                held == BucketsHolding(t)
            IN /\ BeginsWithFailed(status) <=> "failure" \in held
               /\ BeginsWithSuccess(status)
                    <=> held \cap {"compressed", "scanned_images"} # {}

\* C14: in every result process_file has returned, original_size is the
\* entry's byte length / 1024 if the read succeeded (whatever happened
\* afterwards) and 0 if the read failed; compression_ratio is not 0 in the
\* result 'success (compressed)' and is 0 in every other result.
C14_SizesOfResult ==
    \A t \in Tasks :
        Over(t) =>
            LET r == frame[t].result IN
            /\ Called(t, "read", TRUE)
                  => /\ Calls(t, "read")[1].data = frame[t].file_data
                     /\ RatEq(r.original_size, KBytes(Len(frame[t].file_data)))
            /\ Called(t, "read", FALSE) => r.original_size = <<0, 1>>
            /\ ~RatEq(r.compression_ratio, Zero) <=> IsStatus(t, "compressed")
C14_Witness ==
    \E t \in Tasks : /\ Over(t)
                     /\ Called(t, "compress", FALSE)
                     /\ BeginsWithFailed(frame[t].result.status)
                     /\ Len(frame[t].file_data) = 2
                     /\ frame[t].result.original_size = <<1, 512>>
                     /\ frame[t].result.compression_ratio = <<0, 1>>

\* imap_unordered yields a result to main's loop in this step
Collects == outq # <<>> /\ ~Head(outq).raised /\ outq' = Tail(outq)
SuccessStatuses ==
    {<<"success (", word, ")">> :
        word \in {"scanned", "compressed", "uncompressed (larger size)"}}

RunEnded == mainpc \in {"done", "aborted"}
\* the tasks of main's list
Listed == 1..Len(task_args)
Collected(t) == {i \in 1..Len(logs) : logs[i].task = t}
WroteTo(t, b) ==
    \E i \in 1..Len(trace[t]) : trace[t][i].op = "write" /\ trace[t][i].bucket = b

\* C16: with pairwise distinct destinations, what a run leaves behind is
\* fixed by the outcomes of each task's own read, classifier and compressor,
\* whatever the number of workers (any number up to NumWorkers may be busy)
\* and the interleaving: when main is over every listed task has run
\* process_file to its end, every returned result has been collected once,
\* and a bucket holds a file at a task's destination only if that task wrote
\* it.  Only the order of the collected results is left to the schedule.
C16_ScheduleIndependent ==
    (RunEnded /\ C4_DistinctDestinations) =>
        \A t \in Listed :
            /\ Ended(t)
            /\ Over(t) => Cardinality(Collected(t)) = 1
            /\ \A b \in Buckets : fs[Dest(t, b)] # NoFile => WroteTo(t, b)

\* the call cl is on a document with no more pages than num_pages_to_check
FewPages == cl.pc = "returned" /\ Len(cl.doc.pages) <= cl.num_pages_to_check
\* the page numbers random.sample picked in the call cl
SampledNumbers == {cl.sample_pages[i] : i \in 1..Len(cl.sample_pages)}
\* every other choice random.sample could have made gives the same verdict
SameVerdictEveryChoice ==
    \A sample_pages \in SamplesFor(cl.doc, cl.num_pages_to_check) :
        is_scanned_pdf(cl.doc, cl.num_pages_to_check, sample_pages) = cl.result

\* C17, as claimed: for a document with P <= k pages every page is sampled,
\* every choice of random.sample gives the same verdict, and the verdict is
\* true only if no page of the document has text.
C17_AllPagesNoText ==
    FewPages =>
        /\ SampledNumbers = 0..(Len(cl.doc.pages) - 1)
        /\ SameVerdictEveryChoice
        /\ cl.result => \A i \in 1..Len(cl.doc.pages) : cl.doc.pages[i].text = <<>>

\* C17, amended: for a document with P <= k pages every page is sampled,
\* every choice of random.sample gives the same verdict, and the verdict is
\* true only if no page of the document has text other than whitespace.
C17_AllPagesBlank ==
    FewPages =>
        /\ SampledNumbers = 0..(Len(cl.doc.pages) - 1)
        /\ SameVerdictEveryChoice
        /\ cl.result => \A i \in 1..Len(cl.doc.pages) :
                            OnlyWhitespace(cl.doc.pages[i].text)
C17_Witness ==
    /\ FewPages
    /\ cl.result
    /\ Len(cl.doc.pages) = 3
    /\ cl.sample_pages = <<2, 0, 1>>
    /\ cl.doc.pages[1].text = <<" ">>
    /\ cl.doc.pages[2].text = <<>>

\* C18: every tuple process5.py's process_file returns has either error_msg
\* set and compressed_size and ratio both None, or error_msg None and
\* compressed_size and ratio both set, never both and never neither;
\* original_size is None only when reading the size of the input failed.
C18_ErrorOrSizes ==
    call5.pc = "returned" =>
        LET failed == /\ call5.error_msg # None
                      /\ call5.compressed_size = None
                      /\ call5.ratio = None
            sized == /\ call5.error_msg = None
                     /\ call5.compressed_size # None
                     /\ call5.ratio # None
        IN /\ failed \/ sized
           /\ ~(failed /\ sized)
           /\ call5.original_size = None
                 => call5.error_msg = <<"Error getting original size: ">> \o StatError
C18_Witness ==
    /\ call5.pc = "returned"
    /\ call5.error_msg = None
    /\ call5.original_size = <<0>>
    /\ call5.compressed_size = <<2>>
    /\ call5.ratio = Inf

====
